---- MODULE Spec2Model ----
(***************************************************************************)
(* Attachment extraction and chat context assembly of Dev-Team0/agentt.    *)
(*                                                                         *)
(* Three request handlers are modelled:                                    *)
(*   - POST /api/extract-content   (src/src/app/api/extract-content)       *)
(*   - POST /api/chat, enhanced    (src/unnamed/part_001)                  *)
(*   - POST /api/chat, original    (src/src/app/api/chat/route.ts)         *)
(* together with the FileContentExtractor library they call.               *)
(*                                                                         *)
(* Strings that the code inspects (trim, split, substring, length) are     *)
(* sequences of one-character strings; messages built from templates are   *)
(* sequences of fragments, the interpolated values being fragments.        *)
(***************************************************************************)
EXTENDS Integers, Sequences, FiniteSets, TLC

----------------------------------------------------------------------------
(* Bounds of the model *)

MaxFiles == 2
MaxHistory == 2

----------------------------------------------------------------------------
(* Strings *)

WS == {" ", "\n"}

\* String.prototype.trim: from the first to the last non-whitespace character
Trim(s) ==
    IF \A i \in 1..Len(s) : s[i] \in WS THEN <<>>
    ELSE LET first == CHOOSE i \in 1..Len(s) :
                          s[i] \notin WS /\ \A j \in 1..(i - 1) : s[j] \in WS
             last  == CHOOSE i \in 1..Len(s) :
                          s[i] \notin WS /\ \A j \in (i + 1)..Len(s) : s[j] \in WS
         IN  SubSeq(s, first, last)

\* s.split(/\s+/).length : one more than the number of whitespace runs
SplitCount(s) ==
    Cardinality({i \in 1..Len(s) : s[i] \in WS /\ (i = 1 \/ s[i-1] \notin WS)}) + 1

\* JavaScript truthiness of a string
Truthy(s) == s # <<>>

----------------------------------------------------------------------------
(* FileContentExtractor, src/src/lib/fileProcessing.ts *)

PDF   == "application/pdf"
DOCX  == "application/vnd.openxmlformats-officedocument.wordprocessingml.document"
DOC   == "application/msword"
TXT   == "text/plain"
ImageTypes == {"image/jpeg", "image/png", "image/webp", "image/gif"}
SupportedTypes == {PDF, DOCX, DOC, TXT} \cup ImageTypes

\* metadata of an extraction result; pages/wordCount 0 and processing ""
\* stand for an absent field (all three are tested by truthiness only)
Meta(type, pages, wordCount, processing, failed) ==
    [type |-> type, pages |-> pages, wordCount |-> wordCount,
     processing |-> processing, error |-> failed]

NoMeta == Meta("", 0, 0, "", FALSE)

Return(text, metadata) ==
    [kind |-> "return", text |-> text, metadata |-> metadata, message |-> <<>>]

Throw(message) ==
    [kind |-> "throw", text |-> <<>>, metadata |-> NoMeta, message |-> message]

\* the awaited promise never settles: the call neither returns nor throws
Pending ==
    [kind |-> "pending", text |-> <<>>, metadata |-> NoMeta, message |-> <<>>]

DocAdvisoryEmpty  == <<"Could not extract text from legacy DOC format. Please convert to DOCX.">>
DocAdvisoryFailed == <<"Unable to extract text from legacy DOC format. Please convert to DOCX or PDF.">>
OcrNoTextAdvisory == <<"This image does not appear to contain readable text. The image has been uploaded successfully, but no text content was detected through OCR analysis.">>
AllFailedAdvisory == <<"I can see that you've uploaded an image file, but I'm unable to process it at the moment. Please describe what you see in the image, and I'll be happy to help with any questions or analysis.">>

\* The outcome of the external collaborators for one attachment:
\*   fetch       "ok" | "fail"    fetchFileBuffer returns or throws
\*   parse       "ok" | "fail"    pdf-parse / mammoth returns or throws
\*   text                         the raw text of the document
\*   pages                        the page count pdf-parse reports
\*   vision      "resp" | "throw" the vision completion returns or throws
\*   description                  its message content (<<>>: null or "")
\*   ocr         "resp" | "throw" Tesseract.recognize returns or throws
\*   ocrText                      its data.text

ExtractFromPDF(o) ==
    IF o.fetch = "fail" \/ o.parse = "fail"
    THEN Throw(<<"Failed to extract text from PDF">>)
    ELSE Return(Trim(o.text), Meta("pdf", o.pages, SplitCount(o.text), "", FALSE))

ExtractFromDOCX(o) ==
    IF o.fetch = "fail" \/ o.parse = "fail"
    THEN Throw(<<"Failed to extract text from DOCX">>)
    ELSE Return(Trim(o.text), Meta("docx", 0, SplitCount(o.text), "", FALSE))

\* extractFromDOC raising like the docx extractor does
ExtractFromDOCThrows(o) ==
    IF o.fetch = "fail" \/ o.parse = "fail"
    THEN Throw(<<"Failed to extract text from DOC">>)
    ELSE Return(IF Truthy(Trim(o.text)) THEN Trim(o.text) ELSE DocAdvisoryEmpty,
                Meta("doc", 0, 0, "", FALSE))

\* extractFromDOC without the advisory for an empty text
ExtractFromDOCNoAdvisory(o) ==
    IF o.fetch = "fail" \/ o.parse = "fail"
    THEN Return(DocAdvisoryFailed, Meta("doc", 0, 0, "", TRUE))
    ELSE Return(Trim(o.text), Meta("doc", 0, 0, "", FALSE))

ExtractFromDOC(o) ==
    IF o.fetch = "fail" \/ o.parse = "fail"
    THEN Return(DocAdvisoryFailed, Meta("doc", 0, 0, "", TRUE))
    ELSE Return(IF Truthy(Trim(o.text)) THEN Trim(o.text) ELSE DocAdvisoryEmpty,
                Meta("doc", 0, 0, "", FALSE))

\* ExtractFromTXT raising on a file without text
ExtractFromTXTRejectsBlank(o) ==
    IF o.fetch = "fail" \/ ~Truthy(Trim(o.text))
    THEN Throw(<<"Failed to read text file">>)
    ELSE Return(Trim(o.text), Meta("txt", 0, SplitCount(o.text), "", FALSE))

\* ExtractFromTXT reading an unfetchable file as an empty one
ExtractFromTXTIgnoresFetch(o) ==
    Return(Trim(o.text), Meta("txt", 0, SplitCount(o.text), "", FALSE))

ExtractFromTXT(o) ==
    IF o.fetch = "fail"
    THEN Throw(<<"Failed to read text file">>)
    ELSE Return(Trim(o.text), Meta("txt", 0, SplitCount(o.text), "", FALSE))

AnalyzeImageWithVisionAPI(o, hasKey) ==
    IF ~hasKey THEN Throw(<<"OpenAI API key not configured">>)
    ELSE IF o.vision = "throw" THEN Throw(<<"vision request failed">>)
    \* timeout: 30000 on the client turns an unanswered request into an error
    ELSE IF o.vision = "hang" THEN Throw(<<"Request timed out.">>)
    ELSE IF ~Truthy(o.description) THEN Throw(<<"Empty response from Vision API">>)
    ELSE Return(Trim(o.description),
                Meta("image", 0, SplitCount(Trim(o.description)), "vision_api_success", FALSE))

ExtractTextWithOCR(o) ==
    IF o.ocr = "throw" THEN Throw(<<"ocr failed">>)
    \* Tesseract.recognize is awaited without a timeout
    ELSE IF o.ocr = "hang" THEN Pending
    ELSE LET extractedText == Trim(o.ocrText)
         IN  IF ~Truthy(extractedText)
             THEN Return(OcrNoTextAdvisory, Meta("image", 0, 0, "ocr_no_text_found", FALSE))
             ELSE Return(<<"Text extracted from image:\n\n">> \o extractedText,
                         Meta("image", 0, SplitCount(extractedText), "ocr_success", FALSE))

GetBasicImageInfo(fileUrl) ==
    Return(<<"I can see that you've uploaded an image file named \"", fileUrl,
             "\". While I cannot analyze the visual content of the image at the moment, I'm ready to help if you can describe what's in the image or let me know what specific information you're looking for.">>,
           Meta("image", 0, 0, "basic_info_only", FALSE))

\* the cascade inside the outer try of extractFromImage
ImageCascade(fileUrl, o, hasKey) ==
    LET v == AnalyzeImageWithVisionAPI(o, hasKey)
        r == ExtractTextWithOCR(o)
    IN  IF hasKey /\ v.kind = "return" THEN v
        ELSE IF r.kind \in {"return", "pending"} THEN r
        ELSE GetBasicImageInfo(fileUrl)

\* the stages the cascade calls, in call order: vision inside
\* `if (process.env.OPENAI_API_KEY)`, OCR when that try did not return, the
\* basic description when the OCR try did not return either
StagesTried(o, hasKey) ==
    LET v == AnalyzeImageWithVisionAPI(o, hasKey)
        r == ExtractTextWithOCR(o)
        visionReturned == hasKey /\ v.kind = "return"
    IN  (IF hasKey THEN <<"vision">> ELSE <<>>)
        \o (IF ~visionReturned THEN <<"ocr">> ELSE <<>>)
        \o (IF ~visionReturned /\ r.kind = "throw" THEN <<"basic">> ELSE <<>>)

AllMethodsFailed ==
    Return(AllFailedAdvisory, Meta("image", 0, 0, "all_methods_failed", TRUE))

ExtractFromImage(fileUrl, o, hasKey) ==
    LET body == ImageCascade(fileUrl, o, hasKey)
    IN  IF body.kind = "throw" THEN AllMethodsFailed ELSE body

\* Dispatch with unknown types read as plain text
DispatchDefaultsToText(fileUrl, mimeType, o, hasKey) ==
    CASE mimeType = PDF  -> ExtractFromPDF(o)
      [] mimeType = DOCX -> ExtractFromDOCX(o)
      [] mimeType = DOC  -> ExtractFromDOC(o)
      [] mimeType \in ImageTypes -> ExtractFromImage(fileUrl, o, hasKey)
      [] OTHER -> ExtractFromTXT(o)

\* the switch of extractContent
Dispatch(fileUrl, mimeType, o, hasKey) ==
    CASE mimeType = PDF  -> ExtractFromPDF(o)
      [] mimeType = DOCX -> ExtractFromDOCX(o)
      [] mimeType = DOC  -> ExtractFromDOC(o)
      [] mimeType = TXT  -> ExtractFromTXT(o)
      [] mimeType \in ImageTypes -> ExtractFromImage(fileUrl, o, hasKey)
      [] OTHER -> Throw(<<"Unsupported file type: ", mimeType>>)

\* extractContent passing an extractor's failure on as it is
ExtractContentRethrows(fileUrl, mimeType, o, hasKey) ==
    Dispatch(fileUrl, mimeType, o, hasKey)

ExtractContent(fileUrl, mimeType, o, hasKey) ==
    LET r == Dispatch(fileUrl, mimeType, o, hasKey)
    IN  IF r.kind = "throw"
        THEN Throw(<<"Failed to process ", mimeType, ": ">> \o r.message)
        ELSE r

----------------------------------------------------------------------------
(* Inputs: attachments and what the external collaborators answer *)

Texts == {<<>>, <<" ">>, <<" ", "a", "\n", "b", " ">>}

DocOutcome(fetch, parse, text) ==
    [fetch |-> fetch, parse |-> parse, text |-> text, pages |-> 2,
     vision |-> "throw", description |-> <<>>, ocr |-> "throw", ocrText |-> <<>>]

ImageOutcome(vision, description, ocr, ocrText) ==
    [fetch |-> "ok", parse |-> "ok", text |-> <<>>, pages |-> 0,
     vision |-> vision, description |-> description, ocr |-> ocr, ocrText |-> ocrText]

\* the location of an image cannot be fetched: the vision request fails on
\* it (or fetchFileBuffer throws inside it) and so does Tesseract.recognize
ImageFetchFailed ==
    [fetch |-> "fail", parse |-> "ok", text |-> <<>>, pages |-> 0,
     vision |-> "throw", description |-> <<>>, ocr |-> "throw", ocrText |-> <<>>]

OcrOutcomes == {<<"throw", <<>>>>, <<"resp", <<" ">>>>, <<"resp", <<"a">>>>}

\* the outcomes that make a difference for an attachment of the given type
Outcomes(mimeType, hasKey) ==
    CASE mimeType \in {PDF, DOCX, DOC} ->
            {DocOutcome("fail", "ok", <<>>), DocOutcome("ok", "fail", <<>>)}
            \cup {DocOutcome("ok", "ok", t) : t \in Texts}
      [] mimeType = TXT ->
            {DocOutcome("fail", "ok", <<>>)} \cup {DocOutcome("ok", "ok", t) : t \in Texts}
      [] mimeType \in ImageTypes ->
            {ImageFetchFailed} \cup
            IF hasKey
            THEN {ImageOutcome("resp", d, "throw", <<>>) : d \in {<<" ">>, <<" ", "a">>}}
                 \cup {ImageOutcome(v[1], v[2], c[1], c[2]) :
                          v \in {<<"throw", <<>>>>, <<"resp", <<>>>>}, c \in OcrOutcomes}
            ELSE {ImageOutcome("throw", <<>>, c[1], c[2]) : c \in OcrOutcomes}
      [] OTHER -> {DocOutcome("ok", "ok", <<>>)}

\* the outcomes of an image attachment in which a stage never responds
HangOutcomes(hasKey) ==
    IF hasKey
    THEN {ImageOutcome("hang", <<>>, c[1], c[2]) : c \in OcrOutcomes \cup {<<"hang", <<>>>>}}
         \cup {ImageOutcome(v[1], v[2], "hang", <<>>) :
                  v \in {<<"throw", <<>>>>, <<"resp", <<>>>>, <<"resp", <<" ", "a">>>>}}
    ELSE {ImageOutcome("throw", <<>>, "hang", <<>>)}

\* declared content types a request may carry
MimeTypes == {PDF, DOCX, DOC, TXT, "image/png", "video/mp4"}

\* attachment references; name, url and size tell the positions apart
FileAt(i, mimeType) ==
    [name |-> "file" \o ToString(i), url |-> "https://blob/" \o ToString(i),
     type |-> mimeType, size |-> 1000 + i]

Batches(n) ==
    {[i \in 1..n |-> FileAt(i, ts[i])] : ts \in [1..n -> MimeTypes]}

BatchesUpTo(n) == UNION {Batches(k) : k \in 0..n}

----------------------------------------------------------------------------
(* POST /api/extract-content, src/src/app/api/extract-content/route.ts *)

NoError == <<>>

ExtractedRecord(file, content, metadata, error, success) ==
    [fileName |-> file.name, fileType |-> file.type, fileSize |-> file.size,
     content |-> content, metadata |-> metadata, error |-> error, success |-> success]

\* PushResult with the catch block pushing nothing
PushResultDropsFailure(contents, file, r) ==
    IF r.kind = "return"
    THEN Append(contents, ExtractedRecord(file, r.text, r.metadata, NoError, TRUE))
    ELSE contents

\* the try/catch around extractContent for one file: what is pushed
PushResult(contents, file, r) ==
    IF r.kind = "return"
    THEN Append(contents, ExtractedRecord(file, r.text, r.metadata, NoError, TRUE))
    ELSE Append(contents, ExtractedRecord(file, <<>>, NoMeta,
                    IF r.message # <<>> THEN r.message ELSE <<"Unknown error">>, FALSE))

\* a response of either endpoint
Response(status, error, content, fp, se, ecs) ==
    [status |-> status, error |-> error, content |-> content,
     filesProcessed |-> fp, successfulExtractions |-> se, extractedContents |-> ecs]

NoResponse == Response(0, <<>>, <<>>, 0, 0, <<>>)

\* temperature, topP and the penalties in tenths
Config(model, temperature, maxTokens, topP, frequencyPenalty, presencePenalty) ==
    [model |-> model, temperature |-> temperature, maxTokens |-> maxTokens,
     topP |-> topP, frequencyPenalty |-> frequencyPenalty,
     presencePenalty |-> presencePenalty]

\* no parameters resolved yet
NoConfig == Config("", 0, 0, 0, 0, 0)

----------------------------------------------------------------------------
(* State *)

VARIABLES
    client,             \* which handler serves the request: "enhanced", "original"
                        \* chat route, or "direct" (a caller of the extraction endpoint)
    hasKey,             \* process.env.OPENAI_API_KEY is set
    creds,              \* how the caller identifies itself: "none", "cookie", "bearer"
    accountExists,      \* prisma.user.findUnique finds the user
    body,               \* the parsed request body
    pc,                 \* position of the request's handler
    account,            \* result of the account lookup: "pending", "found", "null"
    pf,                 \* processFiles: "idle", "awaiting" the fetch, "returned"
                        \* from the try block, or answered by the "caught" block
    fileContents,       \* fileContents of the chat handler
    openaiMessages,     \* the assembled context
    config,             \* the generation parameters resolved for the request
    genCalls,           \* invocations of openai.chat.completions.create
    aborted,            \* controller.abort() ran: the 8 s timer of processFiles fired
    extractCalls,       \* fetches of /api/extract-content
    resp,               \* the response sent to the caller
    xpc,                \* position of the extraction handler
    xreq,               \* the extraction request: identity forwarded, files
    xi,                 \* its loop index (i, 0-based)
    extractedContents,  \* its extractedContents
    xresp,              \* its response
    world,              \* outcome of the collaborators for each file processed
    userCache,          \* the module-level Map of getCachedUser: user id -> entry
    now,                \* Date.now(), in milliseconds
    db,                 \* prisma.user: whether a user id has an account
    calls               \* the invocations of getCachedUser and where each one is

chatVars == <<body, pc, account, pf, fileContents, openaiMessages, config, genCalls, aborted,
              extractCalls, resp>>
cacheVars == <<userCache, now, db, calls>>
envVars  == <<client, hasKey, creds, accountExists, cacheVars>>
xVars    == <<xpc, xreq, xi, extractedContents, xresp, world>>
vars     == <<client, hasKey, creds, accountExists, body, pc, account, pf,
              fileContents, openaiMessages, config, genCalls, aborted, extractCalls, resp,
              xpc, xreq, xi, extractedContents, xresp, world,
              userCache, now, db, calls>>

----------------------------------------------------------------------------
(* Request bodies *)

\* messages: the fixed conversation cut to n turns, roles alternating
Turn(i) ==
    [role |-> IF i % 2 = 1 THEN "user" ELSE "assistant",
     content |-> <<"turn ", ToString(i)>>]

History(n) == [i \in 1..n |-> Turn(i)]

\* kind "array" | "absent" | "other" (a string, an object, null)
Field(kind, value) == [kind |-> kind, value |-> value]

IsArray(f) == f.kind = "array"

\* mode as sent: absent, null, one of the three named modes, or an unknown
\* value
ModeInputs == {"absent", "null", "standard", "research", "analysis", "turbo"}

\* the original route does not read mode
ChatBodies(route) ==
    {[messages |-> m, files |-> f, mode |-> md] :
        m \in {Field("other", <<>>), Field("array", <<>>), Field("array", History(MaxHistory))},
        f \in {Field("absent", <<>>)} \cup {Field("array", b) : b \in BatchesUpTo(MaxFiles)},
        md \in IF route = "enhanced" THEN {"absent", "research"} ELSE {"absent"}}

ExtractBodies ==
    {[messages |-> Field("absent", <<>>), files |-> f, mode |-> "absent"] :
        f \in {Field("absent", <<>>), Field("other", <<>>)}
              \cup {Field("array", b) : b \in BatchesUpTo(MaxFiles)}}

NoRequest == [identity |-> FALSE, files |-> Field("absent", <<>>)]

\* invocations of getCachedUser considered, and clock ticks
MaxCalls == 3
MaxTicks == 4

UserIds == {"u1", "u2"}

\* const CACHE_DURATION = 5 * 60 * 1000
CACHE_DURATION == 300000

\* the clock advances by half the cache duration at a time
TickStep == CACHE_DURATION \div 2

\* userCache.get(userId) of a key that is not in the Map
NoEntry == [user |-> "undefined", timestamp |-> 0]

\* { user, timestamp }
Entry(user, timestamp) == [user |-> user, timestamp |-> timestamp]

\* an invocation of getCachedUser: pc is "idle" (not started), "query" (the
\* findUnique promise is pending), "resume" (it resolved, the continuation has
\* not run) or "done"; cached is what userCache.get returned, at is the time of
\* the test, user the value found or returned
Call(pcOf, userId, cached, at, user, queried) ==
    [pc |-> pcOf, userId |-> userId, cached |-> cached, at |-> at, user |-> user,
     queried |-> queried]

IdleCall == Call("idle", "", NoEntry, 0, "undefined", FALSE)

\* a process that just started: empty Map, no invocation yet
CacheIdle ==
    /\ userCache = [u \in UserIds |-> NoEntry]
    /\ now = 0
    /\ db = [u \in UserIds |-> FALSE]
    /\ calls = [r \in 1..MaxCalls |-> IdleCall]

Init ==
    /\ client \in {"enhanced", "original", "direct"}
    /\ hasKey \in BOOLEAN
    /\ creds \in {"none", "cookie", "bearer"}
    /\ accountExists \in IF client = "direct" THEN {FALSE} ELSE BOOLEAN
    /\ body \in IF client = "direct" THEN ExtractBodies ELSE ChatBodies(client)
    /\ pc = "start"
    /\ account = "pending"
    /\ pf = "idle"
    /\ fileContents = <<>>
    /\ openaiMessages = <<>>
    /\ config = NoConfig
    /\ genCalls = 0
    /\ aborted = FALSE
    /\ extractCalls = 0
    /\ resp = NoResponse
    /\ xpc = "idle"
    /\ xreq = NoRequest
    /\ xi = 0
    /\ extractedContents = <<>>
    /\ xresp = NoResponse
    /\ world = <<>>
    /\ CacheIdle

----------------------------------------------------------------------------
(* POST /api/extract-content: the handler *)

\* XAuth admitting a caller without a user id
XAuthAdmitsAnyone ==
    /\ xpc = "auth"
    /\ xpc' = "parse"
    /\ UNCHANGED <<envVars, chatVars, xreq, xi, extractedContents, xresp, world>>

\* 1. authenticate: getToken reads the session cookie or the bearer header,
\*    the fallback reads the userId cookie
XAuth ==
    /\ xpc = "auth"
    /\ IF ~xreq.identity
       THEN /\ xresp' = Response(401, <<"Unauthorized">>, <<>>, 0, 0, <<>>)
            /\ xpc' = "done"
       ELSE /\ xpc' = "parse"
            /\ UNCHANGED xresp
    /\ UNCHANGED <<envVars, chatVars, xreq, xi, extractedContents, world>>

\* 2. parse the body: !files || !Array.isArray(files) || files.length === 0
XParse ==
    /\ xpc = "parse"
    /\ IF ~IsArray(xreq.files) \/ Len(xreq.files.value) = 0
       THEN /\ xresp' = Response(400, <<"No files provided">>, <<>>, 0, 0, <<>>)
            /\ xpc' = "done"
       ELSE /\ xpc' = "loop"
            /\ UNCHANGED xresp
    /\ UNCHANGED <<envVars, chatVars, xreq, xi, extractedContents, world>>

\* 3. one iteration of the loop over files
XFile ==
    /\ xpc = "loop"
    /\ xi < Len(xreq.files.value)
    /\ LET file == xreq.files.value[xi + 1]
       IN  \E o \in Outcomes(file.type, hasKey) :
             /\ extractedContents' =
                    PushResult(extractedContents, file,
                               ExtractContent(file.url, file.type, o, hasKey))
             /\ world' = Append(world, o)
    /\ xi' = xi + 1
    /\ UNCHANGED <<envVars, chatVars, xpc, xreq, xresp>>

\* one iteration of the loop for an image attachment, a stage of the
\* cascade not responding: the iteration ends when the cascade returns, and
\* stays inside `await extractContent` when it does not
XFileHang ==
    /\ xpc = "loop"
    /\ xi < Len(xreq.files.value)
    /\ xreq.files.value[xi + 1].type \in ImageTypes
    /\ LET file == xreq.files.value[xi + 1]
       IN  \E o \in HangOutcomes(hasKey) :
             LET r == ExtractContent(file.url, file.type, o, hasKey)
             IN  IF r.kind = "pending"
                 THEN /\ xpc' = "pending"
                      /\ UNCHANGED <<xi, extractedContents, world>>
                 ELSE /\ extractedContents' = PushResult(extractedContents, file, r)
                      /\ world' = Append(world, o)
                      /\ xi' = xi + 1
                      /\ UNCHANGED xpc
    /\ UNCHANGED <<envVars, chatVars, xreq, xresp>>

\* the loop is over: respond
XRespond ==
    /\ xpc = "loop"
    /\ xi >= Len(xreq.files.value)
    /\ xresp' = Response(200, <<>>, <<>>, Len(xreq.files.value), 0, extractedContents)
    /\ xpc' = "done"
    /\ UNCHANGED <<envVars, chatVars, xreq, xi, extractedContents, world>>

----------------------------------------------------------------------------
(* A direct caller of the extraction endpoint *)

DirectCall ==
    /\ client = "direct"
    /\ pc = "start"
    /\ xreq' = [identity |-> creds # "none", files |-> body.files]
    /\ xpc' = "auth"
    /\ extractCalls' = extractCalls + 1
    /\ pc' = "await"
    /\ UNCHANGED <<envVars, body, account, pf, fileContents, openaiMessages, config,
                   genCalls, aborted, resp, xi, extractedContents, xresp, world>>

DirectReceive ==
    /\ client = "direct"
    /\ pc = "await"
    /\ xpc = "done"
    /\ resp' = xresp
    /\ pc' = "done"
    /\ UNCHANGED <<envVars, body, account, pf, fileContents, openaiMessages, config,
                   genCalls, aborted, extractCalls, xVars>>

----------------------------------------------------------------------------
(* Context assembly, src/unnamed/part_001 (enhanced) and                   *)
(* src/src/app/api/chat/route.ts (original)                                *)

SYSTEM_PROMPT == <<"You are Willow, an advanced AI assistant for VB Capital Partners Corp. ...">>
SYSTEM_PROMPT_ORIGINAL == <<"You are Willow, the expert assistant for VB Capital Partners Corp ...">>

ResearchDirective == <<"RESEARCH MODE: Provide comprehensive research leveraging your full knowledge base. Include current trends, industry standards, regulations, and best practices. Be thorough and analytical.">>
AnalysisDirective == <<"ANALYSIS MODE: Provide detailed analysis combining uploaded documents with your broader knowledge. Include comparisons, insights, recommendations, and strategic implications.">>

FileContextIntro == <<"Here are the uploaded files and their contents. Please analyze them using your extensive knowledge base and VB Capital's expertise:\n\n">>
FileContextIntroOriginal == <<"Here are the uploaded files and their contents:\n\n">>

\* '\n\n[Content truncated for performance...]', character by character
TruncationMarker ==
    <<"\n", "\n", "[", "C", "o", "n", "t", "e", "n", "t", " ", "t", "r",
      "u", "n", "c", "a", "t", "e", "d", " ", "f", "o", "r", " ", "p",
      "e", "r", "f", "o", "r", "m", "a", "n", "c", "e", ".", ".", ".",
      "]">>

MAX_FILE_CONTENT == 10000

Msg(role, content) == [role |-> role, content |-> content]

\* type?.toUpperCase() inside a template literal
UpperCase(type) ==
    CASE type = "pdf" -> "PDF" [] type = "docx" -> "DOCX" [] type = "doc" -> "DOC"
      [] type = "txt" -> "TXT" [] type = "image" -> "IMAGE" [] OTHER -> "undefined"

\* the metadata annotation of a block, '' when the record has no metadata
MetaAnnotation(metadata) ==
    IF metadata = NoMeta THEN ""
    ELSE "(" \o UpperCase(metadata.type)
         \o (IF metadata.wordCount # 0
             THEN ", " \o ToString(metadata.wordCount) \o " words" ELSE "")
         \o (IF metadata.pages # 0
             THEN ", " \o ToString(metadata.pages) \o " pages" ELSE "")
         \o ")"

\* HasContent without the test of the content
HasContentAnySuccess(fc) == fc.success

\* fc.success && fc.content && fc.content.trim()
HasContent(fc) == fc.success /\ Truthy(fc.content) /\ Truthy(Trim(fc.content))

\* TruncatedContent cutting at >= instead of >
TruncatedContentFromLimit(content) ==
    IF Len(content) >= MAX_FILE_CONTENT
    THEN SubSeq(content, 1, MAX_FILE_CONTENT) \o TruncationMarker
    ELSE content

TruncatedContent(content) ==
    IF Len(content) > MAX_FILE_CONTENT
    THEN SubSeq(content, 1, MAX_FILE_CONTENT) \o TruncationMarker
    ELSE content

FileBlock(fc) ==
    <<"=== FILE: ", fc.fileName, " ", MetaAnnotation(fc.metadata), " ===\n">>
    \o TruncatedContent(fc.content) \o <<"\n">>

RECURSIVE JoinBlocks(_)
\* validFiles.map(block).join('\n')
JoinBlocks(fcs) ==
    IF Len(fcs) = 0 THEN <<>>
    ELSE IF Len(fcs) = 1 THEN FileBlock(fcs[1])
    ELSE FileBlock(fcs[1]) \o <<"\n">> \o JoinBlocks(Tail(fcs))

\* ModeDirective with a directive for every mode but standard
ModeDirectiveUnlessStandard(mode) ==
    IF mode = "standard" THEN <<>>
    ELSE IF mode = "analysis" THEN <<Msg("system", AnalysisDirective)>>
    ELSE <<Msg("system", ResearchDirective)>>

ModeDirective(mode) ==
    IF mode = "research" THEN <<Msg("system", ResearchDirective)>>
    ELSE IF mode = "analysis" THEN <<Msg("system", AnalysisDirective)>>
    ELSE <<>>

FileContext(fcs) ==
    LET validFiles == SelectSeq(fcs, HasContent)
    IN  IF Len(fcs) > 0 /\ Len(validFiles) > 0
        THEN <<Msg("user", FileContextIntro \o JoinBlocks(validFiles))>>
        ELSE <<>>

\* ConversationMessages with the newest turn first
ConversationMessagesNewestFirst(messages) ==
    [i \in 1..Len(messages) |->
        Msg(messages[Len(messages) + 1 - i].role, messages[Len(messages) + 1 - i].content)]

ConversationMessages(messages) ==
    [i \in 1..Len(messages) |-> Msg(messages[i].role, messages[i].content)]

BuildEnhancedMessages(messages, fcs, mode) ==
    <<Msg("system", SYSTEM_PROMPT)>>
    \o ModeDirective(mode)
    \o FileContext(fcs)
    \o ConversationMessages(messages)

\* OriginalBlock cutting long content the way the enhanced route does
OriginalBlockTruncating(fc) ==
    IF HasContent(fc)
    THEN <<"=== FILE: ", fc.fileName, " ", MetaAnnotation(fc.metadata), " ===\n">>
         \o TruncatedContent(fc.content) \o <<"\n\n">>
    ELSE IF Truthy(fc.error)
    THEN <<"=== FILE: ", fc.fileName, " ===\n[ERROR: ">> \o fc.error \o <<"]\n\n">>
    ELSE <<"=== FILE: ", fc.fileName, " ===\n[No readable content found]\n\n">>

\* the block the original route writes for one record
OriginalBlock(fc) ==
    IF HasContent(fc)
    THEN <<"=== FILE: ", fc.fileName, " ", MetaAnnotation(fc.metadata), " ===\n">>
         \o fc.content \o <<"\n\n">>
    ELSE IF Truthy(fc.error)
    THEN <<"=== FILE: ", fc.fileName, " ===\n[ERROR: ">> \o fc.error \o <<"]\n\n">>
    ELSE <<"=== FILE: ", fc.fileName, " ===\n[No readable content found]\n\n">>

RECURSIVE OriginalBlocks(_)
OriginalBlocks(fcs) ==
    IF Len(fcs) = 0 THEN <<>> ELSE OriginalBlock(fcs[1]) \o OriginalBlocks(Tail(fcs))

BuildOriginalMessages(messages, fcs) ==
    LET fileContentText == OriginalBlocks(fcs)
    IN  <<Msg("system", SYSTEM_PROMPT_ORIGINAL)>>
        \o (IF Len(fcs) > 0 /\ Truthy(Trim(fileContentText))
            THEN <<Msg("user", FileContextIntroOriginal \o fileContentText)>>
            ELSE <<>>)
        \o ConversationMessages(messages)

\* getOpenAIConfig with one penalty tuning for both named modes
GetOpenAIConfigSamePenalties(mode) ==
    CASE mode = "research" -> Config("gpt-4o", 3, 4000, 9, 1, 1)
      [] mode = "analysis" -> Config("gpt-4o", 4, 3500, 8, 1, 1)
      [] OTHER             -> Config("gpt-4o-mini", 5, 2500, 9, 0, 0)

\* getOpenAIConfig with research as the default branch
GetOpenAIConfigDefaultsToResearch(mode) ==
    CASE mode = "analysis" -> Config("gpt-4o", 4, 3500, 8, 2, 1)
      [] OTHER             -> Config("gpt-4o", 3, 4000, 9, 1, 1)

GetOpenAIConfig(mode) ==
    CASE mode = "research" -> Config("gpt-4o", 3, 4000, 9, 1, 1)
      [] mode = "analysis" -> Config("gpt-4o", 4, 3500, 8, 2, 1)
      [] OTHER             -> Config("gpt-4o-mini", 5, 2500, 9, 0, 0)

OriginalConfig == Config("gpt-4o-mini", 7, 4000, 10, 0, 0)

\* SuccessfulExtractions counting every record with success set
SuccessfulExtractionsAnySuccess(fcs) ==
    Len(SelectSeq(fcs, LAMBDA f : f.success))

\* fileContents.filter(f => f.success && f.content.trim()).length
SuccessfulExtractions(fcs) ==
    Len(SelectSeq(fcs, LAMBDA f : f.success /\ Truthy(Trim(f.content))))

----------------------------------------------------------------------------
(* POST /api/chat: what both routes share *)

\* const { messages, files = [], mode = 'standard' } = requestData
ReqMessages == body.messages
ReqFiles == IF body.files.kind = "absent" THEN <<>> ELSE body.files.value
ReqMode  == IF body.mode = "absent" THEN "standard" ELSE body.mode

\* MessagesInvalid without the length test
MessagesInvalidArrayOnly == ~IsArray(ReqMessages)

\* !Array.isArray(messages) || messages.length === 0
MessagesInvalid == ~IsArray(ReqMessages) \/ Len(ReqMessages.value) = 0

ErrorResponse(status, message) == Response(status, message, <<>>, 0, 0, <<>>)

\* the catch block answering with an empty array
FailureRecordsEmpty(files) == <<>>

\* the records the catch block substitutes for the whole batch
FailureRecords(files) ==
    [i \in 1..Len(files) |->
        ExtractedRecord(files[i], <<>>, NoMeta,
                        <<"Failed to extract content from this file">>, FALSE)]

\* the fetch of /api/extract-content is issued; only the Cookie header is
\* forwarded, so an identity carried by a bearer header does not arrive
IssueExtraction ==
    /\ xreq' = [identity |-> creds = "cookie", files |-> Field("array", ReqFiles)]
    /\ xpc' = "auth"
    /\ extractCalls' = extractCalls + 1
    /\ pf' = "awaiting"

\* the fetch resolves: response.ok, then extractData.extractedContents || []
PFReceive ==
    /\ client \in {"enhanced", "original"}
    /\ pf = "awaiting"
    /\ xpc = "done"
    /\ IF xresp.status = 200
       THEN /\ fileContents' = xresp.extractedContents
            /\ pf' = "returned"
       ELSE /\ fileContents' = FailureRecords(ReqFiles)
            /\ pf' = "caught"
    /\ pc' = IF client = "original" THEN "build" ELSE pc
    /\ UNCHANGED <<envVars, body, account, openaiMessages, config, genCalls, aborted, extractCalls,
                   resp, xVars>>

\* PFTimeout without the catch block: the rejection ends the request
PFTimeoutEndsRequest ==
    /\ client = "enhanced"
    /\ pf = "awaiting"
    /\ pf' = "caught"
    /\ aborted' = TRUE
    /\ resp' = ErrorResponse(500, <<"This operation was aborted">>)
    /\ pc' = "done"
    /\ UNCHANGED <<envVars, body, account, fileContents, openaiMessages, config, genCalls,
                   extractCalls, xVars>>

\* setTimeout(() => controller.abort(), TIMEOUT) fires before the fetch
\* resolved: the fetch rejects and the catch block answers
PFTimeout ==
    /\ client = "enhanced"
    /\ pf = "awaiting"
    /\ fileContents' = FailureRecords(ReqFiles)
    /\ pf' = "caught"
    /\ aborted' = TRUE
    /\ UNCHANGED <<envVars, body, pc, account, openaiMessages, config, genCalls,
                   extractCalls, resp, xVars>>

\* the fetch rejects for a reason of its own (connection refused or reset)
PFRejected ==
    /\ client \in {"enhanced", "original"}
    /\ pf = "awaiting"
    /\ fileContents' = FailureRecords(ReqFiles)
    /\ pf' = "caught"
    /\ pc' = IF client = "original" THEN "build" ELSE pc
    /\ UNCHANGED <<envVars, body, account, openaiMessages, config, genCalls, aborted, extractCalls,
                   resp, xVars>>

GenOutcomes == {"text", "empty", "throw", "throwStatus"}

\* the completion call and what follows it, the catch block included
GenerateResponse(g, fcs) ==
    CASE g = "text"  -> Response(200, <<>>, <<"answer">>, Len(fcs),
                                 SuccessfulExtractions(fcs), <<>>)
      [] g = "empty" -> ErrorResponse(500, <<"Empty response from AI">>)
      [] g = "throw" -> ErrorResponse(500, <<"upstream failure">>)
      [] OTHER       -> ErrorResponse(429, <<"rate limited">>)

\* Generate asking a second time after an empty completion
GenerateRetriesOnce ==
    /\ client \in {"enhanced", "original"}
    /\ pc = "generate"
    /\ genCalls' = genCalls + 1
    /\ \E g \in GenOutcomes :
          IF g = "empty" /\ genCalls = 0
          THEN UNCHANGED <<pc, resp>>
          ELSE /\ resp' = GenerateResponse(g, fileContents)
               /\ pc' = "done"
    /\ UNCHANGED <<envVars, body, account, pf, fileContents, openaiMessages, config,
                   aborted, extractCalls, xVars>>

Generate ==
    /\ client \in {"enhanced", "original"}
    /\ pc = "generate"
    /\ genCalls' = genCalls + 1
    /\ \E g \in GenOutcomes : resp' = GenerateResponse(g, fileContents)
    /\ pc' = "done"
    /\ UNCHANGED <<envVars, body, account, pf, fileContents, openaiMessages, config,
                   aborted, extractCalls, xVars>>

----------------------------------------------------------------------------
(* POST /api/chat, enhanced route (src/unnamed/part_001) *)

\* ECheckKey without the test of the environment variable
ECheckKeySkipped ==
    /\ client = "enhanced"
    /\ pc = "start"
    /\ pc' = "auth"
    /\ UNCHANGED <<envVars, body, account, pf, fileContents, openaiMessages, config,
                   genCalls, aborted, extractCalls, resp, xVars>>

ECheckKey ==
    /\ client = "enhanced"
    /\ pc = "start"
    /\ IF ~hasKey
       THEN /\ resp' = ErrorResponse(500, <<"Configuration error: missing OPENAI_API_KEY">>)
            /\ pc' = "done"
       ELSE /\ pc' = "auth"
            /\ UNCHANGED resp
    /\ UNCHANGED <<envVars, body, account, pf, fileContents, openaiMessages, config,
                   genCalls, aborted, extractCalls, xVars>>

\* EAuth looking at messages before it looks at the user id
EAuthAfterMessages ==
    /\ client = "enhanced"
    /\ pc = "auth"
    /\ IF MessagesInvalid
       THEN /\ resp' = ErrorResponse(400, <<"Messages array is required">>)
            /\ pc' = "done"
       ELSE IF creds = "none"
       THEN /\ resp' = ErrorResponse(401, <<"Unauthorized">>)
            /\ pc' = "done"
       ELSE /\ pc' = "validate"
            /\ UNCHANGED resp
    /\ UNCHANGED <<envVars, body, account, pf, fileContents, openaiMessages, config,
                   genCalls, aborted, extractCalls, xVars>>

EAuth ==
    /\ client = "enhanced"
    /\ pc = "auth"
    /\ IF creds = "none"
       THEN /\ resp' = ErrorResponse(401, <<"Unauthorized">>)
            /\ pc' = "done"
       ELSE /\ pc' = "validate"
            /\ UNCHANGED resp
    /\ UNCHANGED <<envVars, body, account, pf, fileContents, openaiMessages, config,
                   genCalls, aborted, extractCalls, xVars>>

\* the messages check, then Promise.all starts the account lookup and
\* processFiles together
EValidate ==
    /\ client = "enhanced"
    /\ pc = "validate"
    /\ IF MessagesInvalid
       THEN /\ resp' = ErrorResponse(400, <<"Messages array is required">>)
            /\ pc' = "done"
            /\ UNCHANGED <<pf, extractCalls, xreq, xpc>>
       ELSE /\ pc' = "join"
            /\ UNCHANGED resp
            /\ IF Len(ReqFiles) > 0
               THEN IssueExtraction
               ELSE /\ pf' = "returned"
                    /\ UNCHANGED <<extractCalls, xreq, xpc>>
    /\ UNCHANGED <<envVars, body, account, fileContents, openaiMessages, config, genCalls, aborted,
                   xi, extractedContents, xresp, world>>

\* getCachedUser settles
ELookup ==
    /\ client = "enhanced"
    /\ pc = "join"
    /\ account = "pending"
    /\ account' = IF accountExists THEN "found" ELSE "null"
    /\ UNCHANGED <<envVars, body, pc, pf, fileContents, openaiMessages, config, genCalls, aborted,
                   extractCalls, resp, xVars>>

\* EJoin without the account test
EJoinIgnoresAccount ==
    /\ client = "enhanced"
    /\ pc = "join"
    /\ account # "pending"
    /\ pf \notin {"idle", "awaiting"}
    /\ pc' = "build"
    /\ UNCHANGED <<envVars, body, account, pf, fileContents, openaiMessages, config,
                   genCalls, aborted, extractCalls, resp, xVars>>

\* EJoin answering as soon as the account lookup has settled
EJoinAccountOnly ==
    /\ client = "enhanced"
    /\ pc = "join"
    /\ account # "pending"
    /\ pf \notin {"idle"}
    /\ IF account = "null"
       THEN /\ resp' = ErrorResponse(401, <<"Account not found">>)
            /\ pc' = "done"
       ELSE /\ pf # "awaiting"
            /\ pc' = "build"
            /\ UNCHANGED resp
    /\ UNCHANGED <<envVars, body, account, pf, fileContents, openaiMessages, config,
                   genCalls, aborted, extractCalls, xVars>>

\* both promises settled
EJoin ==
    /\ client = "enhanced"
    /\ pc = "join"
    /\ account # "pending"
    /\ pf \notin {"idle", "awaiting"}
    /\ IF account = "null"
       THEN /\ resp' = ErrorResponse(401, <<"Account not found">>)
            /\ pc' = "done"
       ELSE /\ pc' = "build"
            /\ UNCHANGED resp
    /\ UNCHANGED <<envVars, body, account, pf, fileContents, openaiMessages, config,
                   genCalls, aborted, extractCalls, xVars>>

EBuild ==
    /\ client = "enhanced"
    /\ pc = "build"
    /\ openaiMessages' = BuildEnhancedMessages(ReqMessages.value, fileContents, ReqMode)
    /\ config' = GetOpenAIConfig(ReqMode)
    /\ pc' = "generate"
    /\ UNCHANGED <<envVars, body, account, pf, fileContents, genCalls, aborted,
                   extractCalls, resp, xVars>>

----------------------------------------------------------------------------
(* POST /api/chat, original route (src/src/app/api/chat/route.ts) *)

OAuth ==
    /\ client = "original"
    /\ pc = "start"
    /\ IF creds = "none"
       THEN /\ resp' = ErrorResponse(401, <<"Unauthorized">>)
            /\ pc' = "done"
       ELSE /\ pc' = "lookup"
            /\ UNCHANGED resp
    /\ UNCHANGED <<envVars, body, account, pf, fileContents, openaiMessages, config,
                   genCalls, aborted, extractCalls, xVars>>

OLookup ==
    /\ client = "original"
    /\ pc = "lookup"
    /\ account' = IF accountExists THEN "found" ELSE "null"
    /\ IF ~accountExists
       THEN /\ resp' = ErrorResponse(401, <<"Account not found">>)
            /\ pc' = "done"
       ELSE /\ pc' = "checkKey"
            /\ UNCHANGED resp
    /\ UNCHANGED <<envVars, body, pf, fileContents, openaiMessages, config, genCalls, aborted,
                   extractCalls, xVars>>

OCheckKey ==
    /\ client = "original"
    /\ pc = "checkKey"
    /\ IF ~hasKey
       THEN /\ resp' = ErrorResponse(500, <<"Configuration error: missing OPENAI_API_KEY">>)
            /\ pc' = "done"
       ELSE /\ pc' = "validate"
            /\ UNCHANGED resp
    /\ UNCHANGED <<envVars, body, account, pf, fileContents, openaiMessages, config,
                   genCalls, aborted, extractCalls, xVars>>

\* the messages check, then the extraction fetch when files were sent
OValidate ==
    /\ client = "original"
    /\ pc = "validate"
    /\ IF MessagesInvalid
       THEN /\ resp' = ErrorResponse(400, <<"Messages array is required">>)
            /\ pc' = "done"
            /\ UNCHANGED <<pf, extractCalls, xreq, xpc>>
       ELSE /\ UNCHANGED resp
            /\ IF Len(ReqFiles) > 0
               THEN /\ IssueExtraction
                    /\ pc' = "extract"
               ELSE /\ pc' = "build"
                    /\ UNCHANGED <<pf, extractCalls, xreq, xpc>>
    /\ UNCHANGED <<envVars, body, account, fileContents, openaiMessages, config, genCalls, aborted,
                   xi, extractedContents, xresp, world>>

OBuild ==
    /\ client = "original"
    /\ pc = "build"
    /\ openaiMessages' = BuildOriginalMessages(ReqMessages.value, fileContents)
    /\ config' = OriginalConfig
    /\ pc' = "generate"
    /\ UNCHANGED <<envVars, body, account, pf, fileContents, genCalls, aborted,
                   extractCalls, resp, xVars>>

----------------------------------------------------------------------------
(* getCachedUser, src/unnamed/part_001, called by concurrent requests *)

\* the test with <= in place of <
IsFreshInclusive(cached, t) ==
    cached # NoEntry /\ t - cached.timestamp <= CACHE_DURATION

\* cached && Date.now() - cached.timestamp < CACHE_DURATION
IsFresh(cached, t) ==
    cached # NoEntry /\ t - cached.timestamp < CACHE_DURATION

\* the synchronous part of getCachedUser: read the Map, return the cached
\* user or issue prisma.user.findUnique
CacheCall(r, u) ==
    /\ calls[r].pc = "idle"
    /\ r > 1 => calls[r - 1].pc # "idle"
    /\ LET cached == userCache[u]
       IN  calls' = [calls EXCEPT ![r] =
                IF IsFresh(cached, now)
                THEN Call("done", u, cached, now, cached.user, FALSE)
                ELSE Call("query", u, cached, now, "undefined", TRUE)]
    /\ UNCHANGED <<userCache, now, db>>

\* findUnique reads the table: the promise resolves with the row or null
CacheQuery(r) ==
    /\ calls[r].pc = "query"
    /\ calls' = [calls EXCEPT ![r].pc = "resume",
                              ![r].user = IF db[calls[r].userId]
                                          THEN calls[r].userId ELSE "null"]
    /\ UNCHANGED <<userCache, now, db>>

\* the continuation after the await: store a found user, return
CacheResume(r) ==
    /\ calls[r].pc = "resume"
    /\ userCache' = IF calls[r].user # "null"
                    THEN [userCache EXCEPT ![calls[r].userId] = Entry(calls[r].user, now)]
                    ELSE userCache
    /\ calls' = [calls EXCEPT ![r].pc = "done"]
    /\ UNCHANGED <<now, db>>

\* time passes
Tick ==
    /\ now + TickStep <= MaxTicks * TickStep
    /\ now' = now + TickStep
    /\ UNCHANGED <<userCache, db, calls>>

\* an account is created or deleted
DbWrite(u) ==
    /\ db' = [db EXCEPT ![u] = ~db[u]]
    /\ UNCHANGED <<userCache, now, calls>>

RequestVars == <<client, hasKey, creds, accountExists, chatVars, xVars>>

NextCache ==
    \/ \E r \in 1..MaxCalls, u \in UserIds : CacheCall(r, u) /\ UNCHANGED RequestVars
    \/ \E r \in 1..MaxCalls : CacheQuery(r) /\ UNCHANGED RequestVars
    \/ \E r \in 1..MaxCalls : CacheResume(r) /\ UNCHANGED RequestVars
    \/ Tick /\ UNCHANGED RequestVars
    \/ \E u \in UserIds : DbWrite(u) /\ UNCHANGED RequestVars

\* the cache on its own: no request is being served by the handlers
InitCache ==
    /\ client = "enhanced"
    /\ hasKey = TRUE
    /\ creds = "cookie"
    /\ accountExists = TRUE
    /\ body = [messages |-> Field("absent", <<>>), files |-> Field("absent", <<>>),
               mode |-> "absent"]
    /\ pc = "done"
    /\ account = "pending"
    /\ pf = "idle"
    /\ fileContents = <<>>
    /\ openaiMessages = <<>>
    /\ config = NoConfig
    /\ genCalls = 0
    /\ aborted = FALSE
    /\ extractCalls = 0
    /\ resp = NoResponse
    /\ xpc = "idle"
    /\ xreq = NoRequest
    /\ xi = 0
    /\ extractedContents = <<>>
    /\ xresp = NoResponse
    /\ world = <<>>
    /\ CacheIdle

SpecCache == InitCache /\ [][NextCache]_vars

----------------------------------------------------------------------------
(* Specification *)

Next ==
    \/ XAuth \/ XParse \/ XFile \/ XRespond
    \/ DirectCall \/ DirectReceive
    \/ PFReceive \/ PFTimeout \/ PFRejected
    \/ ECheckKey \/ EAuth \/ EValidate \/ ELookup \/ EJoin \/ EBuild
    \/ OAuth \/ OLookup \/ OCheckKey \/ OValidate \/ OBuild
    \/ Generate

Spec == Init /\ [][Next]_vars

\* every handler runs to its end: a step that can be taken is taken
FairSpec == Spec /\ WF_vars(Next)

\* the same handlers, the stages of the image cascade possibly not responding
NextHang == Next \/ XFileHang

SpecHang == Init /\ [][NextHang]_vars /\ WF_vars(NextHang)

----------------------------------------------------------------------------
(* The context assembler on its own: buildEnhancedMessages applied to      *)
(* histories, modes and file-content lists drawn from bounded sets,        *)
(* contents around the truncation ceiling included                         *)

\* a text of n characters
LongText(n) == <<"a">> \o SubSeq([i \in 1..n |-> "x"], 1, n - 2) \o <<"z">>

\* the records a file-content list may hold at position i
AssemblerRecords(i) ==
    LET file == FileAt(i, PDF)
    IN  { ExtractedRecord(file, <<>>, NoMeta, <<"Failed to extract content from this file">>, FALSE),
          ExtractedRecord(file, <<>>, Meta("txt", 0, 1, "", FALSE), NoError, TRUE),
          ExtractedRecord(file, <<" ", "\n">>, NoMeta, NoError, TRUE),
          ExtractedRecord(file, <<"a", " ", "b">>, Meta("pdf", 2, 2, "", FALSE), NoError, TRUE),
          ExtractedRecord(file, <<"c">>, NoMeta, NoError, TRUE),
          ExtractedRecord(file, LongText(MAX_FILE_CONTENT), NoMeta, NoError, TRUE),
          ExtractedRecord(file, LongText(MAX_FILE_CONTENT + 1), NoMeta, NoError, TRUE) }

AssemblerLists ==
    UNION {{[i \in 1..n |-> rs[i]] : rs \in {f \in [1..n -> UNION {AssemblerRecords(i) : i \in 1..n}] :
                                              \A i \in 1..n : f[i] \in AssemblerRecords(i)}} :
           n \in 0..MaxFiles}

InitAssemble ==
    /\ client = "enhanced"
    /\ hasKey = TRUE
    /\ creds = "cookie"
    /\ accountExists = TRUE
    /\ body \in {[messages |-> Field("array", History(n)),
                  files |-> Field("absent", <<>>), mode |-> md] :
                     n \in 1..MaxHistory, md \in ModeInputs}
    /\ pc = "build"
    /\ account = "found"
    /\ pf = "returned"
    /\ fileContents \in AssemblerLists
    /\ openaiMessages = <<>>
    /\ config = NoConfig
    /\ genCalls = 0
    /\ aborted = FALSE
    /\ extractCalls = 0
    /\ resp = NoResponse
    /\ xpc = "idle"
    /\ xreq = NoRequest
    /\ xi = 0
    /\ extractedContents = <<>>
    /\ xresp = NoResponse
    /\ world = <<>>
    /\ CacheIdle

NextAssemble == EBuild

SpecAssemble == InitAssemble /\ [][NextAssemble]_vars

----------------------------------------------------------------------------
(* The original route on its own: its requests from the start, and its     *)
(* assembly step entered with every shape of record the extraction may     *)
(* have answered for the files of the request                              *)

InitAssembleOriginal ==
    /\ client = "original"
    /\ hasKey = TRUE
    /\ creds = "cookie"
    /\ accountExists = TRUE
    /\ fileContents \in AssemblerLists
    /\ body \in {[messages |-> Field("array", History(n)),
                  files |-> IF Len(fileContents) = 0 THEN Field("absent", <<>>)
                            ELSE Field("array", [i \in 1..Len(fileContents) |-> FileAt(i, PDF)]),
                  mode |-> "absent"] : n \in 1..MaxHistory}
    /\ pc = "build"
    /\ account = "found"
    /\ pf = IF Len(fileContents) = 0 THEN "idle" ELSE "returned"
    /\ openaiMessages = <<>>
    /\ config = NoConfig
    /\ genCalls = 0
    /\ aborted = FALSE
    /\ extractCalls = IF Len(fileContents) = 0 THEN 0 ELSE 1
    /\ resp = NoResponse
    /\ xpc = "idle"
    /\ xreq = NoRequest
    /\ xi = 0
    /\ extractedContents = <<>>
    /\ xresp = NoResponse
    /\ world = <<>>
    /\ CacheIdle

InitOriginal ==
    \/ Init /\ client = "original"
    \/ InitAssembleOriginal

NextOriginal ==
    \/ XAuth \/ XParse \/ XFile \/ XRespond
    \/ PFReceive \/ PFRejected
    \/ OAuth \/ OLookup \/ OCheckKey \/ OValidate \/ OBuild
    \/ Generate

SpecOriginal == InitOriginal /\ [][NextOriginal]_vars

----------------------------------------------------------------------------
(* Properties *)

\* an authenticated extraction call carrying a batch of at least one file
\* has been answered
BatchAnswered ==
    /\ xpc = "done"
    /\ xreq.identity
    /\ IsArray(xreq.files)
    /\ Len(xreq.files.value) >= 1

\* C1: an authenticated extraction call with N >= 1 attachments answers with
\* exactly N records, record i describing input file i (name, type, size),
\* whatever the per-file outcomes were; while the loop runs, the records
\* pushed so far are those of the first i files.
C1_OneRecordPerFileInOrder ==
    /\ xpc \in {"loop", "done"} =>
          /\ Len(extractedContents) = xi
          /\ \A i \in 1..Len(extractedContents) :
                /\ extractedContents[i].fileName = xreq.files.value[i].name
                /\ extractedContents[i].fileType = xreq.files.value[i].type
                /\ extractedContents[i].fileSize = xreq.files.value[i].size
    /\ BatchAnswered =>
          /\ xresp.status = 200
          /\ xresp.extractedContents = extractedContents
          /\ Len(xresp.extractedContents) = Len(xreq.files.value)

\* a batch of two files answered, the first file failed and the second
\* succeeded
C1_Witness ==
    /\ BatchAnswered
    /\ Len(xresp.extractedContents) = 2
    /\ ~xresp.extractedContents[1].success
    /\ xresp.extractedContents[2].success

\* the record the endpoint answers for a file on its own, given what the
\* collaborators answer for it
SoloRecord(file, o) ==
    PushResult(<<>>, file, ExtractContent(file.url, file.type, o, hasKey))[1]

\* C2: an attachment whose declared type is not supported yields a record
\* with success = FALSE whose error text contains the declared type, and
\* every other record of the batch is the record its own file yields alone.
C2_UnsupportedTypeIsolated ==
    BatchAnswered =>
        /\ xresp.status = 200
        /\ Len(xresp.extractedContents) = Len(xreq.files.value)
        /\ \A i \in 1..Len(xreq.files.value) :
              xreq.files.value[i].type \notin SupportedTypes =>
                 /\ ~xresp.extractedContents[i].success
                 /\ \E k \in 1..Len(xresp.extractedContents[i].error) :
                       xresp.extractedContents[i].error[k] = xreq.files.value[i].type
                 /\ \A j \in 1..Len(xreq.files.value) :
                       j # i => xresp.extractedContents[j]
                                   = SoloRecord(xreq.files.value[j], world[j])

\* an unsupported file answered next to a sibling that was extracted
C2_Witness ==
    /\ BatchAnswered
    /\ Len(xresp.extractedContents) = 2
    /\ xreq.files.value[1].type = "video/mp4"
    /\ xresp.extractedContents[2].success
    /\ Truthy(xresp.extractedContents[2].content)

\* C3: the image resolver never raises and always returns a non-empty text:
\* every record of an image attachment is a success record with non-empty
\* content.
C3_ImageAlwaysHasText ==
    \A i \in 1..Len(extractedContents) :
        xreq.files.value[i].type \in ImageTypes =>
            /\ extractedContents[i].success
            /\ Truthy(extractedContents[i].content)

\* every record produced: the endpoint's and the chat handler's
AllRecords ==
    {extractedContents[i] : i \in 1..Len(extractedContents)}
    \cup {fileContents[i] : i \in 1..Len(fileContents)}

\* some character of s is not whitespace
HasVisibleText(s) == \E k \in 1..Len(s) : s[k] \notin WS

\* C4 as stated: success = FALSE implies empty content and an error reason;
\* success = TRUE with empty content only for an image record whose
\* processing method is ocr_no_text_found.
C4_EmptySuccessOnlyOcrNoText ==
    \A r \in AllRecords :
        /\ ~r.success => r.content = <<>> /\ r.error # <<>>
        /\ (r.success /\ ~HasVisibleText(r.content)) =>
              r.metadata.type = "image" /\ r.metadata.processing = "ocr_no_text_found"

\* C4 as amended: success = FALSE implies empty content and an error reason;
\* success = TRUE with empty content occurs only where the extractor returns
\* the trimmed text of its source and that text has no visible character (a
\* pdf, docx or plain-text document, or a vision description); a record whose
\* method is ocr_no_text_found carries the non-empty advisory text.
C4_EmptySuccessOnlyTrimmedSources ==
    /\ \A r \in AllRecords :
          /\ ~r.success => r.content = <<>> /\ r.error # <<>>
          /\ r.success => r.error = <<>>
          /\ r.metadata.processing = "ocr_no_text_found" => HasVisibleText(r.content)
    /\ \A i \in 1..Len(extractedContents) :
          LET r == extractedContents[i]
          IN  (r.success /\ ~HasVisibleText(r.content)) =>
                 \/ /\ r.metadata.type \in {"pdf", "docx", "txt"}
                    /\ ~HasVisibleText(world[i].text)
                 \/ /\ r.metadata.processing = "vision_api_success"
                    /\ ~HasVisibleText(world[i].description)

\* a batch holding a failure record and a success record with empty content
C4_Witness ==
    /\ xpc = "done"
    /\ Len(extractedContents) = 2
    /\ ~extractedContents[1].success
    /\ extractedContents[2].success
    /\ extractedContents[2].content = <<>>
    /\ extractedContents[2].metadata.type = "txt"

ChatChecksPass ==
    /\ client \in {"enhanced", "original"}
    /\ hasKey
    /\ creds # "none"
    /\ body.messages.kind = "array"
    /\ Len(body.messages.value) > 0
    /\ accountExists

\* the request was answered by the generation step: with the completion or
\* with the error the completion raised
AnsweredByGeneration ==
    /\ pc = "done"
    /\ genCalls = 1
    /\ \/ resp.status = 200 /\ resp.content # <<>>
       \/ resp.status \in {500, 429}
          /\ resp.error \in {<<"Empty response from AI">>, <<"upstream failure">>,
                             <<"rate limited">>}

BadMessages ==
    /\ client \in {"enhanced", "original"}
    /\ \/ body.messages.kind # "array"
       \/ body.messages.value = <<>>

\* the checks a route runs before it looks at messages all pass: the
\* enhanced route tests the credential and the user id, the original route
\* the user id, the account and the credential
EarlierChecksPass ==
    IF client = "enhanced"
    THEN hasKey /\ creds # "none"
    ELSE creds # "none" /\ accountExists /\ hasKey

\* C7 as stated: a chat request whose messages field is not an array or is
\* empty is answered 400 and invokes neither the extraction service nor the
\* generation capability.
C7_BadMessagesAlways400 ==
    (BadMessages /\ pc = "done") =>
        /\ resp.status = 400
        /\ extractCalls = 0
        /\ genCalls = 0

\* C7: a chat request whose messages field is not an array or is empty never
\* invokes the extraction service or the generation capability; it is
\* answered 400 when the checks that precede the messages check pass, and
\* 401 or 500 by the first of those checks that fails.
C7_BadMessagesRejectedBeforeWork ==
    BadMessages =>
        /\ extractCalls = 0
        /\ genCalls = 0
        /\ xpc = "idle"
        /\ pc = "done" =>
              IF EarlierChecksPass
              THEN resp = ErrorResponse(400, <<"Messages array is required">>)
              ELSE resp.status \in {401, 500}

\* a request with an empty messages array and attachments was answered 400
C7_Witness ==
    /\ BadMessages
    /\ body.messages.kind = "array"
    /\ body.files.kind = "array"
    /\ Len(body.files.value) > 0
    /\ pc = "done"
    /\ resp.status = 400

\* a chat request served while the generation credential is missing
NoCredential == client \in {"enhanced", "original"} /\ ~hasKey

\* C8 as stated: with the generation credential missing, the chat request
\* is answered with the configuration error (500) and makes no extraction
\* call and no generation call.
C8_NoCredentialAlways500 ==
    (NoCredential /\ pc = "done") =>
        /\ resp.status = 500
        /\ extractCalls = 0
        /\ genCalls = 0

\* C8: with the generation credential missing, a chat request makes no
\* extraction call and no generation call; the enhanced route answers with
\* the configuration error (500) in every case, the original route answers
\* with it when the caller is identified and has an account, and 401
\* otherwise.
C8_NoCredentialNoWork ==
    NoCredential =>
        /\ extractCalls = 0
        /\ genCalls = 0
        /\ xpc = "idle"
        /\ pc = "done" =>
              IF client = "enhanced" \/ (creds # "none" /\ accountExists)
              THEN resp = ErrorResponse(500, <<"Configuration error: missing OPENAI_API_KEY">>)
              ELSE resp.status = 401

\* an otherwise valid request with attachments was answered with the
\* configuration error
C8_Witness ==
    /\ NoCredential
    /\ creds # "none"
    /\ body.messages.kind = "array"
    /\ Len(body.messages.value) > 0
    /\ body.files.kind = "array"
    /\ Len(body.files.value) > 0
    /\ pc = "done"
    /\ resp.status = 500

\* buildEnhancedMessages has returned
Assembled == client = "enhanced" /\ pc = "generate"

\* the record carries text of a successful extraction with at least one
\* character that is not white space
Qualifies(fc) == fc.success /\ \E j \in 1..Len(fc.content) : fc.content[j] \notin WS

\* how many entries the mode and the file contents put after the base entry
DirectiveCount == IF body.mode \in {"research", "analysis"} THEN 1 ELSE 0
FileContextCount ==
    IF \E i \in 1..Len(fileContents) : Qualifies(fileContents[i]) THEN 1 ELSE 0

\* C9: the context buildEnhancedMessages returns is the base system entry,
\* then the mode directive when the mode is research or analysis, then at
\* most one user-role file-context entry, then every history entry with its
\* role and text unchanged and in the original order; the base entry is at
\* index 0 and is written once, and the file-context entry precedes the
\* history.
C9_AssembledContextShape ==
    Assembled =>
        LET out     == openaiMessages
            history == body.messages.value
            head    == 1 + DirectiveCount + FileContextCount
        IN  /\ Len(out) = head + Len(history)
            /\ out[1] = [role |-> "system", content |-> SYSTEM_PROMPT]
            /\ Cardinality({i \in 1..head : out[i].content = SYSTEM_PROMPT}) = 1
            /\ DirectiveCount = 1 =>
                  /\ out[2].role = "system"
                  /\ out[2].content = IF body.mode = "research"
                                      THEN ResearchDirective ELSE AnalysisDirective
            /\ FileContextCount = 1 =>
                  /\ out[head].role = "user"
                  /\ SubSeq(out[head].content, 1, 1) = FileContextIntro
            /\ \A i \in 1..head : out[i].role = "user" => (i = head /\ FileContextCount = 1)
            /\ \A i \in 1..Len(history) : out[head + i] = history[i]

\* a context with a directive, a file-context entry and two history turns
C9_Witness ==
    /\ Assembled
    /\ DirectiveCount = 1
    /\ FileContextCount = 1
    /\ Len(body.messages.value) = 2
    /\ Len(openaiMessages) = 5
    /\ openaiMessages[5] = body.messages.value[2]

\* the qualifying records, in list order
QualifyingFiles == SelectSeq(fileContents, Qualifies)

\* where the blocks of the file-context entry start
BlockStarts(text) == {i \in 1..Len(text) : text[i] = "=== FILE: "}

\* the start of the k-th block
BlockStart(text, k) ==
    CHOOSE i \in BlockStarts(text) : Cardinality({j \in BlockStarts(text) : j <= i}) = k

\* the content the k-th of n blocks includes: what follows the five tokens
\* of its header, up to the line break that ends the block (and, for a block
\* that is not the last, the line break that joins it to the next)
IncludedContent(text, k, n) ==
    SubSeq(text, BlockStart(text, k) + 5,
           IF k = n THEN Len(text) - 1 ELSE BlockStart(text, k + 1) - 3)

\* C10: the content a qualifying file contributes to the file-context entry
\* is its original content when that is at most 10,000 characters long, and
\* otherwise its first 10,000 characters followed by the truncation marker;
\* the included content is never longer than 10,000 characters plus the
\* marker.
C10_ContentTruncatedAtCeiling ==
    (Assembled /\ FileContextCount = 1) =>
        LET text == openaiMessages[1 + DirectiveCount + 1].content
            n    == Len(QualifyingFiles)
        IN  /\ Cardinality(BlockStarts(text)) = n
            /\ \A k \in 1..n :
                  LET original == QualifyingFiles[k].content
                      included == IncludedContent(text, k, n)
                  IN  /\ IF Len(original) <= 10000
                         THEN included = original
                         ELSE included = SubSeq(original, 1, 10000) \o TruncationMarker
                      /\ Len(included) <= 10000 + Len(TruncationMarker)

\* a file-context entry holding a content of exactly 10,000 characters and,
\* after it, one of 10,001 characters that was cut
C10_Witness ==
    /\ Assembled
    /\ Len(QualifyingFiles) = 2
    /\ Len(QualifyingFiles[1].content) = 10000
    /\ Len(QualifyingFiles[2].content) = 10001
    /\ Len(IncludedContent(openaiMessages[1 + DirectiveCount + 1].content, 2, 2))
          = 10000 + Len(TruncationMarker)

\* C11: for every mode value that is absent, null, or not one of research
\* and analysis, the generation parameters resolved for the request are the
\* standard ones (the mini model with the 2,500-token ceiling); the two named
\* modes resolve to the larger model with a higher ceiling, so standard is
\* the fastest tier and the smallest ceiling of the table; the resolver
\* returns parameters for every input.
C11_UnknownModeResolvesToStandard ==
    Assembled =>
        /\ config # NoConfig
        /\ body.mode \notin {"research", "analysis"} =>
              config = [model |-> "gpt-4o-mini", temperature |-> 5, maxTokens |-> 2500,
                        topP |-> 9, frequencyPenalty |-> 0, presencePenalty |-> 0]
        /\ body.mode \in {"research", "analysis"} =>
              /\ config.model = "gpt-4o"
              /\ config.maxTokens > 2500

\* an unrecognised mode and a null mode were each resolved
C11_Witness ==
    /\ Assembled
    /\ body.mode \in {"turbo", "null"}
    /\ config.model = "gpt-4o-mini"

\* the chat request was answered with a completion
ChatSucceeded ==
    /\ client \in {"enhanced", "original"}
    /\ pc = "done"
    /\ resp.status = 200

\* the attachments the request carried
SentFiles == IF body.files.kind = "array" THEN body.files.value ELSE <<>>

\* C12: in every successful chat response, filesProcessed is the number of
\* attachments sent (0 when none) and successfulExtractions is the number of
\* extraction records with success=true whose content has a character that
\* is not white space; hence successfulExtractions <= filesProcessed, and
\* successfulExtractions = 0 when every attachment failed.
C12_ResponseCounts ==
    ChatSucceeded =>
        /\ resp.filesProcessed = Len(SentFiles)
        /\ resp.successfulExtractions =
              Cardinality({i \in 1..Len(fileContents) : Qualifies(fileContents[i])})
        /\ resp.successfulExtractions <= resp.filesProcessed
        /\ (\A i \in 1..Len(fileContents) : ~fileContents[i].success) =>
              resp.successfulExtractions = 0

\* a successful response for two attachments of which one was extracted
\* with text and the other with success set but blank content
C12_Witness ==
    /\ ChatSucceeded
    /\ resp.filesProcessed = 2
    /\ resp.successfulExtractions = 1
    /\ \A i \in 1..2 : fileContents[i].success

\* the generation capability was invoked and the request was not answered
\* with a completion
GenerationFailed ==
    /\ client \in {"enhanced", "original"}
    /\ pc = "done"
    /\ genCalls = 1
    /\ resp.content = <<>>

\* C13: when the generation capability fails or returns an empty completion,
\* the chat request is answered with status 500 and the upstream error
\* message, also when the upstream failure carries a status code of its own.
C13_UpstreamFailureIs500 ==
    GenerationFailed =>
        /\ resp.status = 500
        /\ resp.error # <<>>

\* a chat request whose caller has no resolvable user id, or whose user id
\* has no account
UnknownCaller ==
    /\ client \in {"enhanced", "original"}
    /\ (creds = "none" \/ ~accountExists)

\* C14 as stated: a chat request with no resolvable user id, or with a user
\* id that has no account, is answered 401 and never invokes the generation
\* capability.
C14_UnknownCallerAlways401 ==
    (UnknownCaller /\ pc = "done") =>
        /\ resp.status = 401
        /\ genCalls = 0

\* C14: a chat request with no resolvable user id, or with a user id that has
\* no account, never invokes the generation capability. The original route
\* answers it 401. The enhanced route answers it 500 when the generation
\* credential is missing, 401 when the user id cannot be resolved, 400 when
\* the user id resolves but messages is not a non-empty array, and 401 for
\* the missing account otherwise.
C14_UnknownCallerNeverGenerates ==
    UnknownCaller =>
        /\ genCalls = 0
        /\ pc # "generate"
        /\ pc = "done" =>
              resp.status =
                 IF client = "original" THEN 401
                 ELSE IF ~hasKey THEN 500
                 ELSE IF creds = "none" THEN 401
                 ELSE IF body.messages.kind # "array" \/ body.messages.value = <<>> THEN 400
                 ELSE 401

\* the enhanced route answered 401 for a missing account after the
\* extraction call it had started alongside the lookup
C14_Witness ==
    /\ UnknownCaller
    /\ client = "enhanced"
    /\ creds # "none"
    /\ extractCalls = 1
    /\ pc = "done"
    /\ resp = ErrorResponse(401, <<"Account not found">>)

\* the files field of the extraction request is missing, not an array, or
\* an empty array
NoFilesProvided == xreq.files.kind # "array" \/ xreq.files.value = <<>>

\* C15: the extraction endpoint answers 401 when no user id can be resolved
\* and 400 when the files field is missing, not an array, or empty; in both
\* cases no per-file extraction is attempted; the authentication check comes
\* first, so a call that fails both checks is answered 401.
C15_ExtractionRejections ==
    /\ (xpc # "idle" /\ (~xreq.identity \/ NoFilesProvided)) =>
          /\ xpc # "loop"
          /\ xi = 0
          /\ extractedContents = <<>>
          /\ world = <<>>
    /\ (xpc = "done" /\ ~xreq.identity) =>
          xresp = Response(401, <<"Unauthorized">>, <<>>, 0, 0, <<>>)
    /\ (xpc = "done" /\ xreq.identity /\ NoFilesProvided) =>
          xresp = Response(400, <<"No files provided">>, <<>>, 0, 0, <<>>)
    /\ (xpc = "parse") => xreq.identity

\* a call without a user id and without files was answered 401
C15_Witness ==
    /\ xpc = "done"
    /\ ~xreq.identity
    /\ NoFilesProvided
    /\ xresp.status = 401

\* s is a part of <<"vision", "ocr", "basic">> that keeps its order
InCascadeOrder(s) ==
    \A a, b \in 1..Len(s) :
        a < b => \/ s[a] = "vision" /\ s[b] \in {"ocr", "basic"}
                 \/ s[a] = "ocr" /\ s[b] = "basic"

\* C16: the image cascade tries vision, then OCR, then the basic description:
\* vision only when the credential is configured, OCR only when vision was
\* skipped or failed, the basic description only when OCR failed too; the
\* processing method names the stage that produced the result:
\* vision_api_success iff vision returned a description with text in it,
\* ocr_success iff OCR returned text, ocr_no_text_found iff OCR succeeded
\* without text (a success record), basic_info_only otherwise.
C16_CascadeOrderAndMethod ==
    \A i \in 1..Len(extractedContents) :
        xreq.files.value[i].type \in ImageTypes =>
            LET o      == world[i]
                tried  == StagesTried(o, hasKey)
                method == extractedContents[i].metadata.processing
                Tried(stage) == \E k \in 1..Len(tried) : tried[k] = stage
                visionGave == hasKey /\ o.vision = "resp" /\ HasVisibleText(o.description)
                ocrGave    == o.ocr = "resp" /\ HasVisibleText(o.ocrText)
                ocrBlank   == o.ocr = "resp" /\ ~HasVisibleText(o.ocrText)
            IN  /\ InCascadeOrder(tried)
                /\ Tried("vision") <=> hasKey
                /\ Tried("ocr") <=> ~visionGave
                /\ Tried("basic") <=> (~visionGave /\ o.ocr = "throw")
                /\ extractedContents[i].success
                /\ method = "vision_api_success" <=> visionGave
                /\ method = "ocr_success" <=> (~visionGave /\ ocrGave)
                /\ method = "ocr_no_text_found" <=> (~visionGave /\ ocrBlank)
                /\ method = "basic_info_only" <=> (~visionGave /\ o.ocr = "throw")

\* the loop of the extraction endpoint is about to process an image
\* attachment as its k-th file
ImageIsNext(k) ==
    /\ xpc = "loop"
    /\ xi = k - 1
    /\ k <= Len(xreq.files.value)
    /\ xreq.files.value[k].type \in ImageTypes

\* C17: every stage of the image cascade is bounded by a timeout of its own,
\* so the resolver of an image attachment eventually ends with a record that
\* has content, also when the vision call or the OCR call never responds.
C17_ImageResolverTerminates ==
    \A k \in 1..MaxFiles :
        ImageIsNext(k) ~> (/\ Len(extractedContents) >= k
                           /\ extractedContents[k].success)

\* the location of the i-th attachment processed could not be fetched
FetchFailed(i) == world[i].fetch = "fail"

\* C18 as stated: a fetch failure for an attachment of any supported type
\* becomes a record with success = FALSE and a non-empty error reason.
C18_FetchFailureIsFailureRecord ==
    \A i \in 1..Len(extractedContents) :
        (FetchFailed(i) /\ xreq.files.value[i].type \in SupportedTypes) =>
            /\ ~extractedContents[i].success
            /\ extractedContents[i].error # <<>>

\* C18: a fetch failure never raises to the caller of the batch: the loop
\* goes on and the batch is answered with one record per file. The record is
\* a failure record with a non-empty error reason for a pdf, docx or
\* plain-text attachment; for a legacy doc attachment it is a success record
\* carrying the advisory text, and for an image it is a success record
\* carrying the basic description.
C18_FetchFailureAbsorbed ==
    /\ xpc \in {"loop", "done"} => Len(extractedContents) = Len(world)
    /\ \A i \in 1..Len(extractedContents) :
          FetchFailed(i) =>
              LET r == extractedContents[i]
                  t == xreq.files.value[i].type
              IN  /\ t \in {PDF, DOCX, TXT} =>
                        /\ ~r.success
                        /\ r.content = <<>>
                        /\ r.error # <<>>
                  /\ t = DOC =>
                        /\ r.success
                        /\ r.content = DocAdvisoryFailed
                  /\ t \in ImageTypes =>
                        /\ r.success
                        /\ r.metadata.processing = "basic_info_only"
    /\ (xpc = "done" /\ \E i \in 1..Len(world) : FetchFailed(i)) =>
          /\ xresp.status = 200
          /\ Len(xresp.extractedContents) = Len(xreq.files.value)

\* a batch of a plain-text and a legacy doc attachment, neither location
\* fetchable, was answered with a failure record and an advisory record
C18_Witness ==
    /\ xpc = "done"
    /\ Len(world) = 2
    /\ FetchFailed(1) /\ FetchFailed(2)
    /\ xreq.files.value[1].type = TXT
    /\ xreq.files.value[2].type = DOC
    /\ ~xresp.extractedContents[1].success
    /\ xresp.extractedContents[2].success

\* the system-role entries of the assembled context
SystemEntries == {i \in 1..Len(openaiMessages) : openaiMessages[i].role = "system"}

\* the request asks for standard mode, by name or by leaving mode out
StandardRequested == body.mode \in {"absent", "standard"}

\* C19 as stated: for every request mode other than standard the assembled
\* context has exactly one more system entry, the directive, directly after
\* the base instructions; for standard there is none.
C19_DirectiveUnlessStandard ==
    Assembled =>
        IF StandardRequested
        THEN SystemEntries = {1}
        ELSE SystemEntries = {1, 2}

\* C19: for the modes research and analysis the assembled context has
\* exactly one more system entry, the directive of that mode, directly after
\* the base instructions, and the two directives differ; for every other
\* mode value (standard, absent, null, unrecognised) there is no directive
\* entry.
C19_DirectiveOnlyForNamedModes ==
    Assembled =>
        /\ body.mode = "research" =>
              /\ SystemEntries = {1, 2}
              /\ openaiMessages[2].content = ResearchDirective
        /\ body.mode = "analysis" =>
              /\ SystemEntries = {1, 2}
              /\ openaiMessages[2].content = AnalysisDirective
        /\ body.mode \notin {"research", "analysis"} => SystemEntries = {1}
        /\ ResearchDirective # AnalysisDirective

\* a context assembled for analysis, its directive between the base
\* instructions and the file-context entry
C19_Witness ==
    /\ Assembled
    /\ body.mode = "analysis"
    /\ SystemEntries = {1, 2}
    /\ openaiMessages[2].content = AnalysisDirective
    /\ openaiMessages[3].role = "user"

\* the file names in the block headers of the file-context entry, in order
BlockNames(text) ==
    [k \in 1..Cardinality(BlockStarts(text)) |-> text[BlockStart(text, k) + 1]]

\* C20: the file-context entry has one block for each record with
\* success=true and non-blank trimmed content, in the order of the records,
\* and a block for no other record; when no record qualifies, all records
\* having failed included, the assembled context has no file-context entry.
C20_BlocksAreQualifyingRecords ==
    Assembled =>
        LET head == 1 + DirectiveCount
        IN  IF QualifyingFiles = <<>>
            THEN /\ Len(openaiMessages) = head + Len(body.messages.value)
                 /\ \A i \in 1..Len(openaiMessages) :
                       SubSeq(openaiMessages[i].content, 1, 1) # FileContextIntro
            ELSE /\ Len(openaiMessages) = head + 1 + Len(body.messages.value)
                 /\ BlockNames(openaiMessages[head + 1].content)
                       = [k \in 1..Len(QualifyingFiles) |-> QualifyingFiles[k].fileName]

\* of two records the first has success set but blank content and only the
\* second got a block
C20_Witness ==
    /\ Assembled
    /\ Len(fileContents) = 2
    /\ fileContents[1].success
    /\ ~Qualifies(fileContents[1])
    /\ Qualifies(fileContents[2])
    /\ BlockNames(openaiMessages[1 + DirectiveCount + 1].content) = <<"file2">>

\* C21: once the outer timeout of the extraction call has fired, no further
\* per-file extraction step of that batch runs, and the chat flow holds one
\* failure record per file, without text, also for the files whose
\* extraction had finished before the timeout.
C21_TimeoutAbandonsExtraction ==
    /\ [][aborted => UNCHANGED <<xi, extractedContents, world>>]_vars
    /\ [](aborted =>
            /\ Len(fileContents) = Len(SentFiles)
            /\ \A i \in 1..Len(fileContents) :
                  /\ ~fileContents[i].success
                  /\ fileContents[i].content = <<>>)

\* C22: getCachedUser returns the cached user without an external lookup iff
\* an entry for the user id exists and is younger than 5 minutes, so no
\* request receives an older entry; a missing or expired entry leads to an
\* external lookup, and a found result is stored as the entry; a request
\* whose lookup is pending can always take its next step, whatever the other
\* requests are doing.
C22_CacheHitIffFresh ==
    \A r \in 1..MaxCalls :
        LET c == calls[r]
        IN  c.pc # "idle" =>
              /\ ~c.queried <=> (/\ c.cached # NoEntry
                                 /\ c.at - c.cached.timestamp < 300000)
              /\ ~c.queried => (c.pc = "done" /\ c.user = c.cached.user)
              /\ c.cached # NoEntry => c.cached.user = c.userId
              /\ c.pc = "query" => ENABLED CacheQuery(r)
              /\ c.pc = "resume" => ENABLED CacheResume(r)
              /\ (c.pc = "done" /\ c.queried /\ c.user # "null") =>
                    /\ userCache[c.userId].user = c.user
                    /\ userCache[c.userId].timestamp >= c.at

\* the second call was served from the entry the first one stored, half the
\* duration old; the third call found it exactly 5 minutes old and looked
\* the user up again
C22_Witness ==
    /\ calls[1].pc = "done" /\ calls[1].queried
    /\ calls[2].pc = "done" /\ ~calls[2].queried
    /\ calls[2].at - calls[2].cached.timestamp = 150000
    /\ calls[3].queried
    /\ calls[3].cached # NoEntry
    /\ calls[3].at - calls[3].cached.timestamp = 300000

\* the parser failed on the i-th attachment processed, a legacy doc file
DocParserFailed(i) ==
    /\ xreq.files.value[i].type = "application/msword"
    /\ world[i].fetch = "ok"
    /\ world[i].parse = "fail"

\* C23: a parser failure on a legacy rich-text attachment does not raise: the
\* endpoint records success=true with the fixed advisory message asking for
\* conversion, and goes on with the remaining files of the batch.
C23_LegacyDocDegrades ==
    /\ \A i \in 1..Len(extractedContents) :
          DocParserFailed(i) =>
              /\ extractedContents[i].success
              /\ extractedContents[i].error = <<>>
              /\ extractedContents[i].content =
                    <<"Unable to extract text from legacy DOC format. Please convert to DOCX or PDF.">>
    /\ (xpc = "done" /\ \E i \in 1..Len(world) : DocParserFailed(i)) =>
          /\ xresp.status = 200
          /\ Len(xresp.extractedContents) = Len(xreq.files.value)

\* a batch whose first file is a legacy doc the parser failed on and whose
\* second file was then extracted with text
C23_Witness ==
    /\ xpc = "done"
    /\ Len(world) = 2
    /\ DocParserFailed(1)
    /\ xresp.extractedContents[1].success
    /\ xresp.extractedContents[2].success
    /\ xresp.extractedContents[2].metadata.type = "pdf"
    /\ HasVisibleText(xresp.extractedContents[2].content)

\* the i-th attachment processed is a plain-text file whose buffer is empty
\* or holds white space only
BlankTextFile(i) ==
    /\ xreq.files.value[i].type = "text/plain"
    /\ world[i].fetch = "ok"
    /\ \A k \in 1..Len(world[i].text) : world[i].text[k] \in WS

\* the record the endpoint writes for such a file
BlankTextRecord(fc) == fc.fileType = "text/plain" /\ fc.success /\ fc.content = <<>>

\* some entry of the assembled context has a block for the file name
HasBlockFor(name) ==
    \E i \in 1..Len(openaiMessages) :
        \E k \in 1..(Len(openaiMessages[i].content) - 1) :
            /\ openaiMessages[i].content[k] = "=== FILE: "
            /\ openaiMessages[i].content[k + 1] = name

\* C24: plain-text extraction of an empty or white-space-only buffer returns
\* an empty text and no error, so the endpoint records success=true with
\* empty content; the enhanced chat route then leaves the record out of the
\* file-context entry and out of successfulExtractions.
C24_BlankTextIsEmptySuccess ==
    /\ \A i \in 1..Len(extractedContents) :
          BlankTextFile(i) =>
              /\ extractedContents[i].success
              /\ extractedContents[i].content = <<>>
              /\ extractedContents[i].error = <<>>
    /\ (client = "enhanced" /\ pc \in {"generate", "done"}) =>
          \A i \in 1..Len(fileContents) :
              BlankTextRecord(fileContents[i]) => ~HasBlockFor(fileContents[i].fileName)
    /\ (client = "enhanced" /\ pc = "done" /\ resp.status = 200) =>
          resp.successfulExtractions <=
              Len(fileContents)
                - Cardinality({i \in 1..Len(fileContents) : BlankTextRecord(fileContents[i])})

\* the enhanced route answered a request with a white-space-only text file
\* and a pdf with text: one block, one successful extraction of two files
C24_Witness ==
    /\ client = "enhanced"
    /\ pc = "done"
    /\ resp.status = 200
    /\ Len(fileContents) = 2
    /\ BlankTextRecord(fileContents[1])
    /\ world[1].text = <<" ">>
    /\ HasBlockFor(fileContents[2].fileName)
    /\ resp.filesProcessed = 2
    /\ resp.successfulExtractions = 1

\* the penalty values of the parameters resolved for the request
Penalties == <<config.frequencyPenalty, config.presencePenalty>>

\* C25: in the mode table, standard has the low-cost model with a token
\* ceiling (2,500) strictly below those of research and analysis; research
\* and analysis have the higher-capability model, each with a temperature
\* strictly below standard's (0.5), and their penalty values differ
\* (temperatures and penalties in tenths).
C25_ModeTable ==
    Assembled =>
        /\ body.mode = "standard" =>
              /\ config.model = "gpt-4o-mini"
              /\ config.maxTokens = 2500
              /\ config.temperature = 5
        /\ body.mode = "research" =>
              /\ config.model = "gpt-4o"
              /\ config.maxTokens > 2500
              /\ config.temperature < 5
              /\ Penalties = <<1, 1>>
        /\ body.mode = "analysis" =>
              /\ config.model = "gpt-4o"
              /\ config.maxTokens > 2500
              /\ config.temperature < 5
              /\ Penalties = <<2, 1>>
              /\ Penalties # <<1, 1>>

\* parameters resolved for analysis
C25_Witness ==
    /\ Assembled
    /\ body.mode = "analysis"
    /\ config.maxTokens = 3500
    /\ config.temperature = 4

\* C26: a chat request invokes the generation capability at most once, with
\* no second attempt after a failure or an empty completion; when the request
\* has been answered, the capability was invoked exactly once iff the
\* credential check, authentication, message validation and account lookup
\* all passed.
C26_GenerationAtMostOnce ==
    client \in {"enhanced", "original"} =>
        /\ genCalls \in {0, 1}
        /\ genCalls = 1 => pc = "done"
        /\ pc = "done" =>
              (genCalls = 1 <=> (/\ hasKey
                                 /\ creds # "none"
                                 /\ body.messages.kind = "array"
                                 /\ body.messages.value # <<>>
                                 /\ accountExists))

\* a request answered with the error of an empty completion after a single
\* invocation
C26_Witness ==
    /\ client \in {"enhanced", "original"}
    /\ pc = "done"
    /\ genCalls = 1
    /\ resp = ErrorResponse(500, <<"Empty response from AI">>)

\* C27: the enhanced chat route reports the first failing check in the order
\* missing generation credential (500), missing user id (401), messages not a
\* non-empty array (400), unknown account (401), whatever later checks the
\* request would fail as well.
C27_EnhancedCheckPrecedence ==
    (client = "enhanced" /\ pc = "done") =>
        LET messagesOk == body.messages.kind = "array" /\ body.messages.value # <<>>
        IN  /\ ~hasKey =>
                  resp = ErrorResponse(500, <<"Configuration error: missing OPENAI_API_KEY">>)
            /\ (hasKey /\ creds = "none") =>
                  resp = ErrorResponse(401, <<"Unauthorized">>)
            /\ (hasKey /\ creds # "none" /\ ~messagesOk) =>
                  resp = ErrorResponse(400, <<"Messages array is required">>)
            /\ (hasKey /\ creds # "none" /\ messagesOk /\ ~accountExists) =>
                  resp = ErrorResponse(401, <<"Account not found">>)

\* a request failing the last three checks at once was answered with the
\* outcome of the user-id check
C27_Witness ==
    /\ client = "enhanced"
    /\ pc = "done"
    /\ hasKey
    /\ creds = "none"
    /\ body.messages.kind # "array"
    /\ ~accountExists
    /\ resp.status = 401

\* C28: in the enhanced route an authenticated request with valid messages and
\* attachments whose account does not exist has issued exactly one extraction
\* call, and that call has settled (answer, rejection or 8 s timeout), by the
\* time the 401 "Account not found" is given; in the original route no
\* extraction call is ever made for a caller whose account does not exist.
C28_ExtractionBeforeAccountVerdict ==
    /\ ( /\ client = "enhanced"
         /\ hasKey
         /\ creds # "none"
         /\ body.messages.kind = "array" /\ body.messages.value # <<>>
         /\ body.files.kind = "array" /\ body.files.value # <<>>
         /\ ~accountExists
         /\ pc = "done" ) =>
            /\ extractCalls = 1
            /\ pf \in {"returned", "caught"}
            /\ resp = ErrorResponse(401, <<"Account not found">>)
    /\ (client = "original" /\ ~accountExists) =>
            /\ extractCalls = 0
            /\ pf = "idle"
            /\ xpc = "idle"

\* the 401 for the missing account was given after the extraction call ran
\* into its timeout
C28_Witness ==
    /\ client = "enhanced"
    /\ creds # "none"
    /\ ~accountExists
    /\ body.files.kind = "array" /\ body.files.value # <<>>
    /\ extractCalls = 1
    /\ aborted
    /\ pf = "caught"
    /\ pc = "done"
    /\ resp = ErrorResponse(401, <<"Account not found">>)

OriginalAssembled == client = "original" /\ pc = "generate"

\* the k-th of n blocks of a file-context entry, header included
BlockText(text, k, n) ==
    SubSeq(text, BlockStart(text, k),
           IF k = n THEN Len(text) ELSE BlockStart(text, k + 1) - 1)

C30_FailureNamesDeclaredType ==
    \A i \in 1..Len(extractedContents) :
        LET rec      == extractedContents[i]
            declared == xreq.files.value[i].type
        IN  /\ ~rec.success =>
                  /\ Len(rec.error) > 3
                  /\ SubSeq(rec.error, 1, 3) = <<"Failed to process ", declared, ": ">>
                  /\ rec.content = <<>>
            /\ declared \in {"application/msword", "image/png"} => rec.success

\* a legacy doc file that could not be fetched was recorded as a success and
\* the pdf after it, not fetched either, as a failure naming its type
C30_Witness ==
    /\ xpc = "done"
    /\ Len(extractedContents) = 2
    /\ xreq.files.value[1].type = "application/msword"
    /\ world[1].fetch = "fail"
    /\ extractedContents[1].success
    /\ xreq.files.value[2].type = "application/pdf"
    /\ ~extractedContents[2].success
    /\ extractedContents[2].error[2] = "application/pdf"

====
